---- MODULE Spec2Model ----
(***************************************************************************)
(* A model of profit_loss_streamlit_app.py: a Streamlit script that is     *)
(* re-executed top to bottom on every user interaction.  st.session_state  *)
(* survives the re-executions of one browser session; one JSON file per    *)
(* business (DATA_FILE) survives the sessions.                             *)
(*                                                                         *)
(* Spec      the script run as a state machine over session_state and the  *)
(*           files: business selection, load, reset, the inputs, save.     *)
(* SpecCalc  the calculation part of the run (lines 188-263): the report   *)
(*           df and the filtered report df_filtered, recomputed by every   *)
(*           interaction from the values the widgets return.               *)
(*                                                                         *)
(* Amounts are numbers of hundredths (the inputs' step is 0.01), so that   *)
(* an amount n stands for the float n / 100.  Arithmetic is exact: the     *)
(* rounding of IEEE doubles is not modelled.                               *)
(***************************************************************************)
EXTENDS Integers, Sequences, FiniteSets, TLC

VARIABLES
    session_state,       \* st.session_state: a dict from keys to Python values
    fs,                  \* the files stored_values_<business_id>.json
    pc,                  \* the position of the script run
    selected_business,   \* what the business selectbox returns (line 45)
    reset_clicked,       \* the "Reset All Data" button was pressed (line 109)
    entered_under,       \* history: the business a series key was entered or loaded under
    since_reset,         \* history: per business, "wiped" or "clean" (what its last reset
                         \* found) while nothing was entered since, else "entered"
    inputs,              \* the values the number_input widgets return to the calculation
    custom_categories_input, \* the custom categories text field (line 172)
    tax_rate,            \* line 106
    growth_rate,         \* line 107
    month_filter,        \* line 103
    multi_months_filter, \* line 104
    df,                  \* the report, lines 222-260
    df_filtered,         \* line 263
    steps                \* interactions so far in SpecCalc

sessionVars == <<session_state, fs, pc, selected_business, reset_clicked,
                 entered_under, since_reset>>
calcVars == <<inputs, custom_categories_input, tax_rate, growth_rate, month_filter, multi_months_filter,
              df, df_filtered, steps>>
vars == <<session_state, fs, pc, selected_business, reset_clicked,
          entered_under, since_reset, inputs, custom_categories_input, tax_rate,
          growth_rate, month_filter,
          multi_months_filter, df, df_filtered, steps>>

----------------------------------------------------------------------------
(* Bounds *)

\* the amounts a user enters in Spec are 0, AmountStep, ..., MaxAmount * AmountStep
MaxAmount == 1
AmountStep == 125
\* SpecCalc follows at most this many interactions from the first run
MaxSteps == 2

----------------------------------------------------------------------------
(* Python values and dicts *)

PyFloat(n) == [ty |-> "float", n |-> n, s |-> ""]
PyStr(str) == [ty |-> "str", n |-> 0, s |-> str]
PyBool(b) == [ty |-> "bool", n |-> IF b THEN 1 ELSE 0, s |-> ""]
PyNone == [ty |-> "NoneType", n |-> 0, s |-> ""]

EmptyDict == [k \in {} |-> PyNone]
Put(d, k, v) == [x \in DOMAIN d \cup {k} |-> IF x = k THEN v ELSE d[x]]

----------------------------------------------------------------------------
(* Businesses and keys *)

available_businesses == <<"Reclam Inc.", "Distinct Ent.", "Riverside Worship Ministries">>
Businesses == {available_businesses[i] : i \in DOMAIN available_businesses}

\* selected_business.replace(" ", "_").lower()
business_id(b) ==
    CASE b = "Reclam Inc." -> "reclam_inc."
      [] b = "Distinct Ent." -> "distinct_ent."
      [] b = "Riverside Worship Ministries" -> "riverside_worship_ministries"

\* f"stored_values_{business_id}.json"
DATA_FILE(b) ==
    CASE b = "Reclam Inc." -> "stored_values_reclam_inc..json"
      [] b = "Distinct Ent." -> "stored_values_distinct_ent..json"
      [] b = "Riverside Worship Ministries" -> "stored_values_riverside_worship_ministries.json"
DataFiles == {DATA_FILE(b) : b \in Businesses}

\* f"logo_{business_id}"
LogoKey(b) ==
    CASE b = "Reclam Inc." -> "logo_reclam_inc."
      [] b = "Distinct Ent." -> "logo_distinct_ent."
      [] b = "Riverside Worship Ministries" -> "logo_riverside_worship_ministries"

\* monthly_inputs gives every label and month the key f"{label}_{i}" and treats
\* all of them alike; Spec follows these two of them.
SeriesKeys == {"Revenue_0", "COGS_0"}

\* The order in which the script inserts the keys into session_state, which
\* is the order the dict comprehension of save_session_data reads them in.
KeyOrder == <<"reset_triggered", "selected_business", "business_name",
              "logo_reclam_inc.", "logo_distinct_ent.", "logo_riverside_worship_ministries",
              "Revenue_0", "COGS_0">>

Amounts == {k * AmountStep : k \in 0..MaxAmount}

----------------------------------------------------------------------------
(* JSON text: a sequence of tokens, "{", one member per key, "}" *)

Token(kind, key, ip, fp, str) == [kind |-> kind, key |-> key, ip |-> ip, fp |-> fp, s |-> str]
OpenBrace == Token("{", "", 0, 0, "")
CloseBrace == Token("}", "", 0, 0, "")

\* the float's literal with the integer part cut at the wrong digit
json_encode_shifted(key, v) ==
    CASE v.ty = "float" -> Token("number", key, v.n \div 10, v.n % 100, "")
      [] v.ty = "bool" -> Token(IF v.n = 1 THEN "true" ELSE "false", key, 0, 0, "")
      [] v.ty = "str" -> Token("string", key, 0, 0, v.s)

\* json.dump of one member: a float as its decimal literal (integer part and
\* hundredths), a bool as true / false, a str as a string literal.
json_encode(key, v) ==
    CASE v.ty = "float" -> Token("number", key, v.n \div 100, v.n % 100, "")
      [] v.ty = "bool" -> Token(IF v.n = 1 THEN "true" ELSE "false", key, 0, 0, "")
      [] v.ty = "str" -> Token("string", key, 0, 0, v.s)

\* json.load of one member
json_decode(t) ==
    CASE t.kind = "number" -> PyFloat(t.ip * 100 + t.fp)
      [] t.kind = "true" -> PyBool(TRUE)
      [] t.kind = "false" -> PyBool(FALSE)
      [] t.kind = "string" -> PyStr(t.s)

\* isinstance(st.session_state[key], (int, float, str, bool, list))
Serializable(v) == v.ty \in {"int", "float", "str", "bool", "list"}

\* data = {key: st.session_state[key] for key in st.session_state if isinstance(...)}
save_data(ss) == [k \in {x \in DOMAIN ss : Serializable(ss[x])} |-> ss[k]]

RECURSIVE Members(_, _)
Members(data, keys) ==
    IF keys = <<>> THEN <<>>
    ELSE IF Head(keys) \in DOMAIN data
         THEN <<json_encode(Head(keys), data[Head(keys)])>> \o Members(data, Tail(keys))
         ELSE Members(data, Tail(keys))

\* json.dump(data, f)
json_dump(data) == <<OpenBrace>> \o Members(data, KeyOrder) \o <<CloseBrace>>

\* json.load raises JSONDecodeError on a text that is not a complete document
ParseOk(text) ==
    /\ Len(text) >= 2
    /\ text[1] = OpenBrace
    /\ text[Len(text)] = CloseBrace
    /\ \A i \in 2..(Len(text) - 1) : text[i].kind \in {"number", "true", "false", "string"}

\* json.load(f)
json_load(text) ==
    LET idx == 2..(Len(text) - 1)
        keys == {text[i].key : i \in idx}
    IN [k \in keys |-> json_decode(text[CHOOSE i \in idx : text[i].key = k])]

NoFile == [exists |-> FALSE, text |-> <<>>]
File(text) == [exists |-> TRUE, text |-> text]

----------------------------------------------------------------------------
(* load_session_data, save_session_data *)

\* for key, value in data.items(): st.session_state[key] = value  (the guard lost)
merge_overwriting(ss, data) ==
    [k \in DOMAIN ss \cup DOMAIN data |-> IF k \in DOMAIN data THEN data[k] ELSE ss[k]]

\* for key, value in data.items():
\*     if key not in st.session_state: st.session_state[key] = value
merge(ss, data) ==
    [k \in DOMAIN ss \cup DOMAIN data |-> IF k \in DOMAIN ss THEN ss[k] ELSE data[k]]

\* load_session_data raises when the file exists and json.load rejects it
load_raises(file) == file.exists /\ ~ParseOk(file.text)

\* session_state after load_session_data returns
load_session_data(ss, file) ==
    IF file.exists THEN merge(ss, json_load(file.text)) ELSE ss

\* os.remove left out
remove_skipped(files, name) == files
\* if os.path.exists(DATA_FILE): os.remove(DATA_FILE)
remove_if_exists(files, name) ==
    IF files[name].exists THEN [files EXCEPT ![name] = NoFile] ELSE files

\* the switch without st.session_state.clear()
switch_keeping(ss, b) == Put(ss, "selected_business", PyStr(b))
\* st.session_state.clear(); st.session_state.selected_business = selected_business
switch_business(ss, b) == Put(EmptyDict, "selected_business", PyStr(b))

\* the history of the series keys follows session_state: a key keeps its
\* business while it stays in session_state, a new key gets the current one
Track(old, ss, ss2, b) ==
    [k \in DOMAIN ss2 \cap SeriesKeys |->
        IF k \in DOMAIN ss /\ k \in DOMAIN old THEN old[k] ELSE b]

\* what a reset discards: "wiped" when the working set held a series value
\* other than the default 0.0
ResetFound(ss) ==
    IF \E k \in SeriesKeys \cap DOMAIN ss : ss[k] # PyFloat(0) THEN "wiped" ELSE "clean"

----------------------------------------------------------------------------
(* The script run *)

\* Lines 13-14 and 36-61: the reset flag, the business selection.
Top ==
    /\ pc = "top"
    /\ LET s1 == IF "reset_triggered" \in DOMAIN session_state
                 THEN session_state
                 ELSE Put(session_state, "reset_triggered", PyBool(FALSE))
       IN IF \/ "selected_business" \notin DOMAIN s1
             \/ s1["selected_business"] # PyStr(selected_business)
          THEN /\ session_state' = switch_business(s1, selected_business)
               /\ pc' = "top"                      \* st.rerun()
          ELSE /\ session_state' = Put(s1, "business_name", PyStr(selected_business))
               /\ pc' = "load"
    /\ entered_under' = Track(entered_under, session_state, session_state', selected_business)
    /\ UNCHANGED <<fs, selected_business, reset_clicked, since_reset>>
    /\ UNCHANGED calcVars

\* Line 64: load_session_data().  An exception ends the script run.
Load ==
    /\ pc = "load"
    /\ LET file == fs[DATA_FILE(selected_business)]
       IN IF load_raises(file)
          THEN /\ pc' = "aborted"
               /\ UNCHANGED session_state
          ELSE /\ pc' = "reset"
               /\ session_state' = load_session_data(session_state, file)
    /\ entered_under' = Track(entered_under, session_state, session_state', selected_business)
    /\ UNCHANGED <<fs, selected_business, reset_clicked, since_reset>>
    /\ UNCHANGED calcVars

\* Lines 66-71, then the logo of lines 73-83 (no logo file is ever uploaded).
ResetCheck ==
    /\ pc = "reset"
    /\ IF session_state["reset_triggered"] = PyBool(TRUE)
       THEN /\ fs' = remove_if_exists(fs, DATA_FILE(selected_business))
            /\ session_state' = Put(EmptyDict, "reset_triggered", PyBool(FALSE))
            /\ since_reset' = [since_reset EXCEPT ![selected_business] = ResetFound(session_state)]
            /\ pc' = "top"                         \* st.rerun()
       ELSE /\ session_state' =
                  IF LogoKey(selected_business) \in DOMAIN session_state
                  THEN session_state
                  ELSE Put(session_state, LogoKey(selected_business), PyNone)
            /\ pc' = "sidebar"
            /\ UNCHANGED <<fs, since_reset>>
    /\ entered_under' = Track(entered_under, session_state, session_state', selected_business)
    /\ UNCHANGED <<selected_business, reset_clicked>>
    /\ UNCHANGED calcVars

\* Lines 102-118: the sidebar; the button, and the second reset block.
Sidebar ==
    /\ pc = "sidebar"
    /\ IF reset_clicked
       THEN /\ session_state' = Put(session_state, "reset_triggered", PyBool(TRUE))
            /\ pc' = "top"                         \* st.rerun()
            /\ UNCHANGED <<fs, since_reset>>
       ELSE IF session_state["reset_triggered"] = PyBool(TRUE)
            THEN /\ fs' = remove_if_exists(fs, DATA_FILE(selected_business))
                 /\ session_state' = Put(EmptyDict, "reset_triggered", PyBool(FALSE))
                 /\ since_reset' = [since_reset EXCEPT ![selected_business] = ResetFound(session_state)]
                 /\ pc' = "top"
            ELSE /\ pc' = "inputs"
                 /\ UNCHANGED <<session_state, fs, since_reset>>
    /\ reset_clicked' = FALSE
    /\ entered_under' = Track(entered_under, session_state, session_state', selected_business)
    /\ UNCHANGED selected_business
    /\ UNCHANGED calcVars

\* Lines 128-183: monthly_inputs gives every absent key the default 0.0.
MonthlyInputs ==
    /\ pc = "inputs"
    /\ session_state' = [k \in DOMAIN session_state \cup SeriesKeys |->
                            IF k \in DOMAIN session_state THEN session_state[k]
                            ELSE PyFloat(0)]
    /\ pc' = "save"
    /\ entered_under' = Track(entered_under, session_state, session_state', selected_business)
    /\ UNCHANGED <<fs, selected_business, reset_clicked, since_reset>>
    /\ UNCHANGED calcVars

\* Lines 17-19: open(DATA_FILE, "w") creates or truncates the file.
SaveOpen ==
    /\ pc = "save"
    /\ fs' = [fs EXCEPT ![DATA_FILE(selected_business)] = File(<<>>)]
    /\ pc' = "dump"
    /\ UNCHANGED <<session_state, selected_business, reset_clicked, entered_under, since_reset>>
    /\ UNCHANGED calcVars

\* Line 20: json.dump and the close of the file.  The text is smaller than
\* the file object's buffer, so it reaches the file when the file is closed.
\* The rest of the run (lines 188-383) changes neither session_state nor a file.
SaveDump ==
    /\ pc = "dump"
    /\ fs' = [fs EXCEPT ![DATA_FILE(selected_business)] =
                  File(json_dump(save_data(session_state)))]
    /\ pc' = "idle"
    /\ UNCHANGED <<session_state, selected_business, reset_clicked, entered_under, since_reset>>
    /\ UNCHANGED calcVars

----------------------------------------------------------------------------
(* The user and the environment *)

\* The user changes one number_input; the widget's key takes the value and
\* the script runs again.
EditInput(k, n) ==
    /\ pc = "idle"
    /\ k \in DOMAIN session_state
    /\ session_state[k] # PyFloat(n)
    /\ session_state' = [session_state EXCEPT ![k] = PyFloat(n)]
    /\ entered_under' = [entered_under EXCEPT ![k] = selected_business]
    /\ since_reset' = [since_reset EXCEPT ![selected_business] = "entered"]
    /\ pc' = "top"
    /\ UNCHANGED <<fs, selected_business, reset_clicked>>
    /\ UNCHANGED calcVars

\* The user picks another business; the selectbox is rendered before the
\* load, so it is there after an aborted run too.
SelectBusiness(b) ==
    /\ pc \in {"idle", "aborted"}
    /\ b # selected_business
    /\ selected_business' = b
    /\ pc' = "top"
    /\ UNCHANGED <<session_state, fs, reset_clicked, entered_under, since_reset>>
    /\ UNCHANGED calcVars

\* The user presses "Reset All Data".
ClickReset ==
    /\ pc = "idle"
    /\ reset_clicked' = TRUE
    /\ pc' = "top"
    /\ UNCHANGED <<session_state, fs, selected_business, entered_under, since_reset>>
    /\ UNCHANGED calcVars

\* The process is killed at any point and a new session starts: session_state
\* is empty, the files are as the process left them, and the selectbox shows
\* selected_from_query (lines 40-42: the first character of the query value is
\* no key of business_map, so this is available_businesses[0]).
Crash ==
    /\ session_state' = EmptyDict
    /\ entered_under' = EmptyDict
    /\ selected_business' = available_businesses[1]
    /\ reset_clicked' = FALSE
    /\ pc' = "top"
    /\ UNCHANGED <<fs, since_reset>>
    /\ UNCHANGED calcVars

----------------------------------------------------------------------------
(* The calculation, lines 188-263.  The amounts SpecCalc enters are whole   *)
(* multiples of 1.00 and the rates whole percents, so that every division  *)
(* by 100 below is exact.                                                  *)

months == <<"Jan", "Feb", "Mar", "Apr", "May", "Jun",
            "Jul", "Aug", "Sep", "Oct", "Nov", "Dec">>
MonthIdx == DOMAIN months

\* the labels monthly_inputs is called with on lines 157-183
FixedLabels == {"Revenue", "Target Revenue", "Marketing", "Salaries", "Utilities",
                "Rent", "Other Expenses", "COGS", "Target Expenses"}
\* the text of the custom categories field, split at the commas and stripped
\* (line 172-173): the default, and two texts a user may leave there
CustomTexts == {<<"Taxes", "Insurance">>, <<"Insurance", "">>, <<"">>}
DefaultCustomText == <<"Taxes", "Insurance">>
CustomLabels == {"Taxes", "Insurance"}
\* [c.strip() for c in custom_categories_input.split(',') if c.strip()]
custom_expense_categories(text) == SelectSeq(text, LAMBDA c : c # "")

\* what SpecCalc enters: 0.00, 400.00 or 1000.00, into January or December
CalcAmounts == {0, 40000, 100000}
EditableMonths == {1, 12}
TaxRates == {0, 10, 100}
GrowthRates == {0, 5}
DefaultTaxRate == 10
DefaultGrowthRate == 5

\* a list comprehension builds its list once
List(f) == SubSeq(f, 1, Len(months))

RECURSIVE SumSeq(_)
SumSeq(xs) == IF xs = <<>> THEN 0 ELSE Head(xs) + SumSeq(Tail(xs))

\* [sum(x) for x in zip(marketing, salaries, utilities, rent, other_expenses)]
fixed_expenses(inp) ==
    List([i \in MonthIdx |-> inp["Marketing"][i] + inp["Salaries"][i] + inp["Utilities"][i]
                            + inp["Rent"][i] + inp["Other Expenses"][i]])

\* [sum(custom_expenses_data[cat][i] for cat in custom_expense_categories) for i in range(12)]
custom_totals(inp, cats) ==
    List([i \in MonthIdx |-> SumSeq([j \in DOMAIN cats |-> inp[cats[j]][i]])])

\* [f + c for f, c in zip(fixed_expenses, custom_totals)]
total_expenses(fixed, custom) == List([i \in MonthIdx |-> fixed[i] + custom[i]])

\* [rev - cost for rev, cost in zip(revenue, cogs)]
gross_profit(revenue, cogs) == List([i \in MonthIdx |-> revenue[i] - cogs[i]])

\* [gp - exp for gp, exp in zip(gross_profit, total_expenses)]
net_profit(gross, expenses) == List([i \in MonthIdx |-> gross[i] - expenses[i]])

\* a float that is a ratio, or NaN
Ratio(num, den) == [nan |-> FALSE, num |-> num, den |-> den]
NaN == [nan |-> TRUE, num |-> 0, den |-> 1]

\* [(np / rev * 100) if rev != 0 else 0 for np, rev in zip(net_profit, revenue)]
profit_margin(np, revenue) ==
    List([i \in MonthIdx |-> IF revenue[i] # 0 THEN Ratio(np[i] * 100, revenue[i]) ELSE Ratio(0, 1)])

\* taxes only on a profit
taxes_clamped(np, tr) == List([i \in MonthIdx |-> IF np[i] > 0 THEN (np[i] * tr) \div 100 ELSE 0])
\* [np * (tax_rate / 100) for np in net_profit]
taxes(np, tr) == List([i \in MonthIdx |-> (np[i] * tr) \div 100])

\* [np - tax for np, tax in zip(net_profit, taxes)]
net_profit_after_tax(np, tax) == List([i \in MonthIdx |-> np[i] - tax[i]])

\* [rev * (1 + growth_rate / 100) for rev in revenue], and the same of total_expenses
projected(xs, gr) == List([i \in MonthIdx |-> (xs[i] * (100 + gr)) \div 100])

\* [r - e for r, e in zip(projected_revenue, projected_expenses)]
projected_net_profit(pr, pe) == List([i \in MonthIdx |-> pr[i] - pe[i]])

\* [rev - tgt for rev, tgt in zip(revenue, target_revenue)], and the same of the expenses
variance(actual, target) == List([i \in MonthIdx |-> actual[i] - target[i]])

\* the columns of df; the Taxes column is headed f"Taxes ({tax_rate}%)"
AdditiveColumns == {"Revenue", "Target Revenue", "Revenue Variance", "COGS",
                    "Gross Profit", "Total Expenses", "Target Expenses",
                    "Expense Variance", "Net Profit", "Taxes", "Net Profit After Tax",
                    "Projected Revenue", "Projected Expenses", "Projected Net Profit"}
Columns == {"Month", "Profit Margin (%)"} \cup AdditiveColumns

\* the lists of lines 190-219, by the heading of their column in df
Series(inp, cats, tr, gr) ==
    LET fixed == fixed_expenses(inp)
        custom == custom_totals(inp, cats)
        expenses == total_expenses(fixed, custom)
        gross == gross_profit(inp["Revenue"], inp["COGS"])
        np == net_profit(gross, expenses)
        tax == taxes(np, tr)
        pr == projected(inp["Revenue"], gr)
        pe == projected(expenses, gr)
    IN [c \in Columns |->
          CASE c = "Month" -> months
            [] c = "Revenue" -> inp["Revenue"]
            [] c = "Target Revenue" -> inp["Target Revenue"]
            [] c = "Revenue Variance" -> variance(inp["Revenue"], inp["Target Revenue"])
            [] c = "COGS" -> inp["COGS"]
            [] c = "Gross Profit" -> gross
            [] c = "Total Expenses" -> expenses
            [] c = "Target Expenses" -> inp["Target Expenses"]
            [] c = "Expense Variance" -> variance(expenses, inp["Target Expenses"])
            [] c = "Net Profit" -> np
            [] c = "Profit Margin (%)" -> profit_margin(np, inp["Revenue"])
            [] c = "Taxes" -> tax
            [] c = "Net Profit After Tax" -> net_profit_after_tax(np, tax)
            [] c = "Projected Revenue" -> pr
            [] c = "Projected Expenses" -> pe
            [] c = "Projected Net Profit" -> projected_net_profit(pr, pe)]

\* df = pd.DataFrame({...}): one row per month
DataFrame(series) == List([i \in MonthIdx |-> [c \in Columns |-> series[c][i]]])

\* a total row that sums the gross profit into the Net Profit column
total_row_slip(series) ==
    [c \in Columns |->
        CASE c = "Month" -> "Total"
          [] c = "Profit Margin (%)" -> NaN
          [] c = "Net Profit" -> SumSeq(series["Gross Profit"])
          [] OTHER -> SumSeq(series[c])]
\* total_row = {"Month": "Total", "Revenue": sum(revenue), ...}; the row that
\* df.loc[len(df)] = total_row adds has NaN in the column the dict leaves out
total_row(series) ==
    [c \in Columns |->
        CASE c = "Month" -> "Total"
          [] c = "Profit Margin (%)" -> NaN
          [] OTHER -> SumSeq(series[c])]

\* the filter keeps the months and drops only the total
apply_month_filter_slip(frame, mf) ==
    IF mf # "All" THEN SelectSeq(frame, LAMBDA row : row["Month"] # "Total") ELSE frame
\* df[df["Month"] == month_filter] if month_filter != "All" else df
apply_month_filter(frame, mf) ==
    IF mf # "All" THEN SelectSeq(frame, LAMBDA row : row["Month"] = mf) ELSE frame

\* Lines 188-260: df, with the total row when month_filter == "All"
Report(inp, text, tr, gr, mf) ==
    LET series == Series(inp, custom_expense_categories(text), tr, gr)
    IN IF mf = "All" THEN Append(DataFrame(series), total_row(series))
       ELSE DataFrame(series)

ZeroInputs == [l \in FixedLabels \cup CustomLabels |-> [i \in MonthIdx |-> 0]]

\* An interaction is followed by a run of the script, which computes the
\* report anew from what the widgets return.
Rerun ==
    /\ steps' = steps + 1
    /\ df' = Report(inputs', custom_categories_input', tax_rate', growth_rate', month_filter')
    /\ df_filtered' = apply_month_filter(df', month_filter')
    /\ UNCHANGED sessionVars

\* a number_input of a rendered label gets another amount
EnterAmount(l, i, n) ==
    /\ steps < MaxSteps
    /\ l \in FixedLabels \/ \E j \in DOMAIN custom_categories_input : custom_categories_input[j] = l
    /\ inputs[l][i] # n
    /\ inputs' = [inputs EXCEPT ![l][i] = n]
    /\ UNCHANGED <<custom_categories_input, tax_rate, growth_rate, month_filter, multi_months_filter>>
    /\ Rerun

SetCustomCategories(text) ==
    /\ steps < MaxSteps
    /\ text # custom_categories_input
    /\ custom_categories_input' = text
    /\ UNCHANGED <<inputs, tax_rate, growth_rate, month_filter, multi_months_filter>>
    /\ Rerun

SetTaxRate(r) ==
    /\ steps < MaxSteps
    /\ r # tax_rate
    /\ tax_rate' = r
    /\ UNCHANGED <<inputs, custom_categories_input, growth_rate, month_filter, multi_months_filter>>
    /\ Rerun

SetGrowthRate(g) ==
    /\ steps < MaxSteps
    /\ g # growth_rate
    /\ growth_rate' = g
    /\ UNCHANGED <<inputs, custom_categories_input, tax_rate, month_filter, multi_months_filter>>
    /\ Rerun

\* the "Select Month" selectbox: "All" or a month
SelectMonth(m) ==
    /\ steps < MaxSteps
    /\ m # month_filter
    /\ month_filter' = m
    /\ UNCHANGED <<inputs, custom_categories_input, tax_rate, growth_rate, multi_months_filter>>
    /\ Rerun

\* the "Select Multiple Months for Comparison" multiselect: a month is
\* added to the selection or taken from it
ToggleMultiMonth(m) ==
    /\ steps < MaxSteps
    /\ multi_months_filter' = IF m \in multi_months_filter
                              THEN multi_months_filter \ {m}
                              ELSE multi_months_filter \cup {m}
    /\ UNCHANGED <<inputs, custom_categories_input, tax_rate, growth_rate, month_filter>>
    /\ Rerun

----------------------------------------------------------------------------
(* The specifications *)

\* the widgets at their defaults, no report computed yet
calcInit ==
    /\ inputs = ZeroInputs
    /\ custom_categories_input = DefaultCustomText
    /\ tax_rate = DefaultTaxRate
    /\ growth_rate = DefaultGrowthRate
    /\ month_filter = "All"
    /\ multi_months_filter = {}
    /\ df = <<>>
    /\ df_filtered = <<>>
    /\ steps = 0

Init ==
    /\ session_state = EmptyDict
    /\ fs = [f \in DataFiles |-> NoFile]
    /\ pc = "top"
    /\ selected_business = available_businesses[1]
    /\ reset_clicked = FALSE
    /\ entered_under = EmptyDict
    /\ since_reset = [b \in Businesses |-> "entered"]
    /\ calcInit

Next ==
    \/ Top
    \/ Load
    \/ ResetCheck
    \/ Sidebar
    \/ MonthlyInputs
    \/ SaveOpen
    \/ SaveDump
    \/ \E k \in SeriesKeys, n \in Amounts : EditInput(k, n)
    \/ \E b \in Businesses : SelectBusiness(b)
    \/ ClickReset
    \/ Crash

Spec == Init /\ [][Next]_vars

\* session_state and the file after the first run of a new session
FirstRunState ==
    [k \in {"reset_triggered", "selected_business", "business_name",
            LogoKey(available_businesses[1])} \cup SeriesKeys |->
        CASE k = "reset_triggered" -> PyBool(FALSE)
          [] k \in {"selected_business", "business_name"} -> PyStr(available_businesses[1])
          [] k \in SeriesKeys -> PyFloat(0)
          [] OTHER -> PyNone]

\* the first run of a new session has completed: every widget at its default
InitCalc ==
    /\ session_state = FirstRunState
    /\ fs = [f \in DataFiles |->
                IF f = DATA_FILE(available_businesses[1])
                THEN File(json_dump(save_data(FirstRunState))) ELSE NoFile]
    /\ pc = "idle"
    /\ selected_business = available_businesses[1]
    /\ reset_clicked = FALSE
    /\ entered_under = [k \in SeriesKeys |-> available_businesses[1]]
    /\ since_reset = [b \in Businesses |-> "entered"]
    /\ inputs = ZeroInputs
    /\ custom_categories_input = DefaultCustomText
    /\ tax_rate = DefaultTaxRate
    /\ growth_rate = DefaultGrowthRate
    /\ month_filter = "All"
    /\ multi_months_filter = {}
    /\ df = Report(ZeroInputs, DefaultCustomText, DefaultTaxRate, DefaultGrowthRate, "All")
    /\ df_filtered = apply_month_filter(df, "All")
    /\ steps = 0

NextCalc ==
    \/ \E l \in FixedLabels \cup CustomLabels, i \in EditableMonths, n \in CalcAmounts :
          EnterAmount(l, i, n)
    \/ \E text \in CustomTexts : SetCustomCategories(text)
    \/ \E r \in TaxRates : SetTaxRate(r)
    \/ \E g \in GrowthRates : SetGrowthRate(g)
    \/ \E m \in {"All"} \cup {months[i] : i \in MonthIdx} : SelectMonth(m)
    \/ \E i \in EditableMonths : ToggleMultiMonth(months[i])

SpecCalc == InitCalc /\ [][NextCalc]_vars

----------------------------------------------------------------------------
(* Properties of Spec *)

\* the working set is the one of business b
Active(b) ==
    /\ "selected_business" \in DOMAIN session_state
    /\ session_state["selected_business"] = PyStr(b)

CurrentFile == fs[DATA_FILE(selected_business)]

\* C1: load_session_data never overwrites a key that is in session_state: every
\* key present before the load keeps its value, whatever the file holds for
\* it, and a key that the load adds has the value the file gives it.
C1_MergeKeepsMemory ==
    [][(pc = "load" /\ pc' \in {"reset", "aborted"}) =>
          /\ \A k \in DOMAIN session_state :
                k \in DOMAIN session_state' /\ session_state'[k] = session_state[k]
          /\ \A k \in DOMAIN session_state' \ DOMAIN session_state :
                /\ CurrentFile.exists
                /\ k \in DOMAIN json_load(CurrentFile.text)
                /\ session_state'[k] = json_load(CurrentFile.text)[k]]_vars

\* The load has just run over a file that holds another value than the
\* working set for a series key.
C1_Witness ==
    /\ pc = "reset"
    /\ CurrentFile.exists
    /\ ParseOk(CurrentFile.text)
    /\ \E k \in SeriesKeys \cap DOMAIN session_state :
          /\ k \in DOMAIN json_load(CurrentFile.text)
          /\ json_load(CurrentFile.text)[k] # session_state[k]
          /\ session_state[k] = PyFloat(AmountStep)

\* C2: save is atomic: when a new session starts after the process was
\* killed (session_state is empty), every business's file is absent or a
\* complete document, never an empty or truncated one.
C2_SaveAtomic ==
    DOMAIN session_state = {} =>
        \A f \in DataFiles : fs[f].exists => ParseOk(fs[f].text)

\* C3: the load never ends the script run: with no file the working set is
\* unchanged, with a file that is no valid document the working set is
\* unchanged too, and in every case the run goes on to the steps after it.
C3_LoadNeverAborts ==
    [][(pc = "load" /\ pc' # "top") =>
          /\ pc' = "reset"
          /\ (~CurrentFile.exists \/ ~ParseOk(CurrentFile.text))
                => session_state' = session_state]_vars

SeriesAllZero(d) == \A k \in SeriesKeys \cap DOMAIN d : d[k] = PyFloat(0)

\* C4: after a reset of business b, and as long as the user enters nothing
\* for b, b's file is gone or holds only 0.0 for the series, the working set
\* of b holds only 0.0 for them, and once a run has completed the reset flag
\* is false and every series reads 0.0.  Right after the reset the file is
\* gone and the working set holds no series at all.
C4_ResetClears ==
    /\ \A b \in Businesses : since_reset[b] # "entered" =>
          /\ LET file == fs[DATA_FILE(b)]
             IN \/ ~file.exists
                \/ file.text = <<>>
                \/ ParseOk(file.text) /\ SeriesAllZero(json_load(file.text))
          /\ Active(b) => SeriesAllZero(session_state)
          /\ (Active(b) /\ pc = "idle") =>
                /\ session_state["reset_triggered"] = PyBool(FALSE)
                /\ SeriesKeys \subseteq DOMAIN session_state
                /\ CurrentFile.exists /\ ParseOk(CurrentFile.text)
                /\ SeriesKeys \subseteq DOMAIN json_load(CurrentFile.text)
    /\ (/\ pc = "top"
        /\ DOMAIN session_state = {"reset_triggered"}) =>
          /\ ~CurrentFile.exists
          /\ session_state["reset_triggered"] = PyBool(FALSE)

\* A reset that discarded an entered value has completed, and the run after
\* it has saved the file again.
C4_Witness ==
    /\ pc = "idle"
    /\ Active(selected_business)
    /\ since_reset[selected_business] = "wiped"
    /\ CurrentFile.exists

\* C5: for every file that save has written, load into an empty working
\* set, save, load into an empty working set again gives every series key
\* the value the first load gave it.
C5_RoundTrip ==
    \A f \in DataFiles : (fs[f].exists /\ ParseOk(fs[f].text)) =>
        LET first == load_session_data(EmptyDict, fs[f])
            saved == File(json_dump(save_data(first)))
            second == load_session_data(EmptyDict, saved)
        IN /\ ParseOk(saved.text)
           /\ \A k \in SeriesKeys :
                 /\ k \in DOMAIN first <=> k \in DOMAIN second
                 /\ k \in DOMAIN first => second[k] = first[k]

\* A file that save has written holds an amount with a fractional part.
C5_Witness ==
    /\ pc = "idle"
    /\ CurrentFile.exists
    /\ ParseOk(CurrentFile.text)
    /\ \E i \in DOMAIN CurrentFile.text :
          /\ CurrentFile.text[i].key = "Revenue_0"
          /\ CurrentFile.text[i].ip = 1
          /\ CurrentFile.text[i].fp = 25

\* C10: a step changes no file but the one of the selected business, whose
\* working set it is; and a working set that is about to be written holds no
\* series value that was entered or loaded under another business.
C10_BusinessIsolation ==
    [][/\ \A b \in Businesses :
             fs'[DATA_FILE(b)] # fs[DATA_FILE(b)] =>
                 b = selected_business /\ Active(b)
       /\ pc \in {"save", "dump"} =>
             /\ Active(selected_business)
             /\ \A k \in SeriesKeys \cap DOMAIN session_state :
                   entered_under[k] = selected_business]_vars

\* The second business's file has been written after a switch from the
\* first, whose file holds another value.
C10_Witness ==
    /\ pc = "idle"
    /\ selected_business = available_businesses[2]
    /\ LET a == fs[DATA_FILE(available_businesses[1])]
           b == fs[DATA_FILE(available_businesses[2])]
       IN /\ a.exists /\ ParseOk(a.text)
          /\ b.exists /\ ParseOk(b.text)
          /\ json_load(a.text)["Revenue_0"] = PyFloat(AmountStep)
          /\ json_load(b.text)["Revenue_0"] = PyFloat(0)

----------------------------------------------------------------------------
(* Properties of SpecCalc *)

HasTotal(frame) == \E r \in DOMAIN frame : frame[r]["Month"] = "Total"

\* C6: with "All" selected the displayed report is the 12 month rows in the
\* order Jan..Dec and then the Total row; with one month selected it is
\* exactly the row of that month, without a Total row, whatever the
\* multiselect holds.
C6_SingleMonthFilter ==
    /\ month_filter = "All" =>
          /\ Len(df_filtered) = Len(months) + 1
          /\ \A i \in MonthIdx :
                /\ df_filtered[i]["Month"] = months[i]
                /\ df_filtered[i]["Revenue"] = inputs["Revenue"][i]
          /\ df_filtered[Len(months) + 1]["Month"] = "Total"
    /\ month_filter # "All" =>
          /\ Len(df_filtered) = 1
          /\ df_filtered[1]["Month"] = month_filter
          /\ \A i \in MonthIdx : months[i] = month_filter =>
                /\ df_filtered[1] = df[i]
                /\ df_filtered[1]["Revenue"] = inputs["Revenue"][i]
          /\ ~HasTotal(df_filtered)

\* One month is selected while the multiselect holds another month.
C6_Witness ==
    /\ month_filter = "Dec"
    /\ multi_months_filter = {"Jan"}
    /\ Len(df_filtered) = 1

\* C7: when the multiselect holds a set of months, the displayed report is
\* exactly the rows of these months, without a Total row.
C7_MultiMonthFilter ==
    multi_months_filter # {} =>
        /\ {df_filtered[r]["Month"] : r \in DOMAIN df_filtered} = multi_months_filter
        /\ Len(df_filtered) = Cardinality(multi_months_filter)

\* C8: the report has a Total row exactly when "All" is selected; the Total
\* row is the last row, each of its additive columns is the sum of the column
\* over the 12 month rows, and it has no Profit Margin value.
C8_TotalRow ==
    /\ HasTotal(df) <=> month_filter = "All"
    /\ HasTotal(df_filtered) <=> month_filter = "All"
    /\ \A r \in DOMAIN df : df[r]["Month"] = "Total" =>
          /\ r = Len(months) + 1
          /\ \A c \in AdditiveColumns :
                df[r][c] = SumSeq([i \in MonthIdx |-> df[i][c]])
          /\ df[r]["Profit Margin (%)"].nan
    /\ \A i \in MonthIdx : df[i]["Month"] = months[i] /\ ~df[i]["Profit Margin (%)"].nan

\* The Total row sums two months with revenue and an expense.
C8_Witness ==
    /\ HasTotal(df)
    /\ inputs["Revenue"][1] > 0
    /\ inputs["Rent"][12] > 0
    /\ df[Len(months) + 1]["Revenue"] = inputs["Revenue"][1]
    /\ df[Len(months) + 1]["Net Profit"] = inputs["Revenue"][1] - inputs["Rent"][12]

\* the custom categories that are rendered
Rendered(l) == \E j \in DOMAIN custom_categories_input : custom_categories_input[j] = l

\* revenue - cogs - total expenses of month i, from what the widgets return
NetProfitOf(i) ==
    inputs["Revenue"][i] - inputs["COGS"][i]
        - (inputs["Marketing"][i] + inputs["Salaries"][i] + inputs["Utilities"][i]
             + inputs["Rent"][i] + inputs["Other Expenses"][i])
        - (IF Rendered("Taxes") THEN inputs["Taxes"][i] ELSE 0)
        - (IF Rendered("Insurance") THEN inputs["Insurance"][i] ELSE 0)

\* C9: in every month taxes = net_profit * tax_rate / 100 and
\* net_profit_after_tax = net_profit - taxes, with net_profit = revenue -
\* cogs - total expenses; a negative net profit gives negative taxes, never
\* clamped to zero.  Revenue 1000, COGS 400, no expenses and a tax rate of 10
\* give 600, 60 and 540.
C9_Taxes ==
    /\ \A i \in MonthIdx :
          /\ df[i]["Net Profit"] = NetProfitOf(i)
          /\ df[i]["Taxes"] * 100 = NetProfitOf(i) * tax_rate
          /\ df[i]["Net Profit After Tax"] = NetProfitOf(i) - df[i]["Taxes"]
          /\ (NetProfitOf(i) < 0 /\ tax_rate > 0) => df[i]["Taxes"] < 0
    /\ (/\ inputs["Revenue"][1] = 100000
        /\ inputs["COGS"][1] = 40000
        /\ NetProfitOf(1) = 60000
        /\ tax_rate = 10) =>
          /\ df[1]["Net Profit"] = 60000
          /\ df[1]["Taxes"] = 6000
          /\ df[1]["Net Profit After Tax"] = 54000

\* A month with a loss: the taxes are negative and the net profit after tax
\* is above the net profit.
C9_Witness ==
    \E i \in MonthIdx :
        /\ NetProfitOf(i) < 0
        /\ df[i]["Taxes"] < 0
        /\ df[i]["Net Profit After Tax"] > df[i]["Net Profit"]

\* The example of C9 is reached.
C9_Example ==
    /\ inputs["Revenue"][1] = 100000
    /\ inputs["COGS"][1] = 40000
    /\ tax_rate = 10
    /\ df[1]["Net Profit After Tax"] = 54000

====
